---------------------------- MODULE Spec2Model ----------------------------
(***************************************************************************)
(* A model of src/main.rs, the ownership and borrowing demonstration.      *)
(*                                                                         *)
(* The program is a straight-line script.  It is modelled as a small       *)
(* abstract machine that executes the statements of main and of the seven  *)
(* helper functions one at a time: a call stack of frames, block scopes    *)
(* holding the let-bindings, a heap of String buffers, and the lines       *)
(* written to standard output.  Strings are sequences of UTF-8 bytes.      *)
(*                                                                         *)
(* Two things a run does not control: where the allocator places a String  *)
(* buffer, so every allocation picks its address nondeterministically, and *)
(* what standard output does with a write.  A run starts with standard     *)
(* output open or closed.  Open, every println! either delivers its line,  *)
(* or panics with none, a part or, late, all of the line delivered, or the *)
(* process is killed in the write (a file size limit) with none or a part  *)
(* of the line delivered; closed, every line is dropped silently and the   *)
(* run goes on.  Two runs are executed side by side so that determinism of *)
(* the output can be stated as a property of a pair of runs.               *)
(***************************************************************************)
EXTENDS Integers, Sequences, FiniteSets, TLC

VARIABLES
    stack,      \* stack[r]: the call stack of run r, innermost frame last
    heap,       \* heap[r]: the String buffers run r has allocated, in order
    out,        \* out[r]: the lines run r has printed so far
    clock,      \* clock[r]: the number of statements run r has executed
    panic,      \* panic[r]: "none", or why run r panicked
    fault,      \* fault[r]: memory-safety violations observed in run r
    result,     \* result[r]: value returned by the outermost function of run r
    entry,      \* the function the runs were entered at
    arg,        \* the text handed to that function ("" for main)
    stdout,     \* stdout[r]: "open", or "closed" when run r was started
                \* with file descriptor 1 closed
    signal      \* signal[r]: "none", or the signal that killed run r

vars == <<stack, heap, out, clock, panic, fault, result, entry, arg, stdout, signal>>

\* The two runs that are stepped side by side.
Runs == {1, 2}

\* Number of distinct addresses the allocator can hand out.
NumAddrs == 2

\* Longest input text, in bytes, tried on the helper functions.
MaxLen == 4

Addrs == 1..NumAddrs

-----------------------------------------------------------------------------
(* Text.  A Rust String / &str is a sequence of bytes holding valid UTF-8. *)

SPACE == 32     \* b' '

\* The characters inputs are built from: ' ', 'a' and the two-byte U+00E9.
Chars == { <<32>>, <<97>>, <<195, 169>> }

RECURSIVE TextsOfLen(_)
TextsOfLen(n) ==
    IF n = 0 THEN { <<>> }
    ELSE { c \o t : c \in {d \in Chars : Len(d) = 1}, t \in TextsOfLen(n - 1) }
         \cup (IF n >= 2
               THEN { c \o t : c \in {d \in Chars : Len(d) = 2},
                               t \in TextsOfLen(n - 2) }
               ELSE {})

Texts == UNION { TextsOfLen(n) : n \in 0..MaxLen }

\* A byte that continues a multi-byte character (10xxxxxx).
IsContinuation(b) == b >= 128 /\ b < 192

\* str::is_char_boundary
is_char_boundary(s, i) ==
    \/ i = 0
    \/ i = Len(s)
    \/ i > 0 /\ i < Len(s) /\ ~IsContinuation(s[i + 1])

\* Number of characters (Unicode scalar values) a text holds.
CharCount(s) == Cardinality({ i \in 1..Len(s) : ~IsContinuation(s[i]) })

\* Indexing a str by a range lo..hi panics unless the range lies inside the
\* text and both ends fall on character boundaries.
SlicePanics(s, lo, hi) ==
    ~(lo <= hi /\ hi <= Len(s)
      /\ is_char_boundary(s, lo) /\ is_char_boundary(s, hi))

\* String::len: the length in bytes.
len(s) == Len(s)

\* String::push_str
push_str(s, t) == s \o t

clear_keeps(s) == s

\* String::clear
clear(s) == <<>>

\* The index of the first space byte at or after index i (0-based), or
\* Len(s) when there is none: the loop of get_first_word.
RECURSIVE FirstSpaceFrom(_, _)
FirstSpaceFrom(s, i) ==
    IF i >= Len(s) THEN Len(s)
    ELSE IF s[i + 1] = SPACE THEN i
    ELSE FirstSpaceFrom(s, i + 1)

get_first_word_end_incl(s) ==
    IF FirstSpaceFrom(s, 0) < Len(s) THEN FirstSpaceFrom(s, 0) + 1 ELSE Len(s)

\* get_first_word returns &s[0..get_first_word_end(s)].
get_first_word_end(s) == FirstSpaceFrom(s, 0)

-----------------------------------------------------------------------------
(* The program text: one record per statement, with its source line.       *)

\* src/main.rs lines 1-6
main_header ==
   <<
      [op |-> "println", line |-> 2, fmt |-> "========================================", args |-> <<>>],
      [op |-> "println", line |-> 3, fmt |-> "RUST OWNERSHIP AND BORROWING DEMO", args |-> <<>>],
      [op |-> "println", line |-> 4, fmt |-> "========================================", args |-> <<>>],
      [op |-> "println", line |-> 5, fmt |-> "This program demonstrates Rust's ownership and borrowing concepts", args |-> <<>>],
      [op |-> "println", line |-> 6, fmt |-> "through a series of practical examples.\n", args |-> <<>>]
   >>

\* src/main.rs lines 8-64
main_section1 ==
   <<
      [op |-> "println", line |-> 9, fmt |-> "SECTION 1: BASIC OWNERSHIP", args |-> <<>>],
      [op |-> "println", line |-> 10, fmt |-> "------------------------------------------", args |-> <<>>],
      [op |-> "println", line |-> 12, fmt |-> "Example 1: Transfer of ownership", args |-> <<>>],
      [op |-> "block_open", line |-> 14],
      [op |-> "let_string", line |-> 15, var |-> "s1", lit |-> <<104, 101, 108, 108, 111>>],
      [op |-> "println", line |-> 16, fmt |-> "  Created s1: {}", args |-> <<"s1">>],
      [op |-> "let_move", line |-> 18, var |-> "s2", from |-> "s1"],
      [op |-> "println", line |-> 19, fmt |-> "  Ownership transferred to s2: {}", args |-> <<"s2">>],
      [op |-> "println", line |-> 23, fmt |-> "  Note: We can't use s1 anymore as it no longer owns the String", args |-> <<>>],
      [op |-> "block_close", line |-> 24],
      [op |-> "println", line |-> 25, fmt |-> "  Variables s1 and s2 are now out of scope, memory is automatically freed\n", args |-> <<>>],
      [op |-> "println", line |-> 27, fmt |-> "Example 2: Ownership with functions", args |-> <<>>],
      [op |-> "block_open", line |-> 28],
      [op |-> "let_string", line |-> 29, var |-> "s", lit |-> <<104, 101, 108, 108, 111, 32, 119, 111, 114, 108, 100>>],
      [op |-> "println", line |-> 30, fmt |-> "  Created string s: {}", args |-> <<"s">>],
      [op |-> "call", line |-> 33, fn |-> "takes_ownership", mode |-> "value", arg |-> "s", dest |-> ""],
      [op |-> "println", line |-> 37, fmt |-> "  Note: We can't use s anymore as its ownership was transferred to the function\n", args |-> <<>>],
      [op |-> "let_int", line |-> 39, var |-> "x", n |-> 5],
      [op |-> "println", line |-> 40, fmt |-> "  Created integer x: {}", args |-> <<"x">>],
      [op |-> "call", line |-> 43, fn |-> "makes_copy", mode |-> "value", arg |-> "x", dest |-> ""],
      [op |-> "println", line |-> 45, fmt |-> "  We can still use x after passing it to a function: {}", args |-> <<"x">>],
      [op |-> "println", line |-> 46, fmt |-> "  Note: This is because primitive types like integers implement the Copy trait", args |-> <<>>],
      [op |-> "block_close", line |-> 47],
      [op |-> "println", line |-> 48, fmt |-> "", args |-> <<>>],
      [op |-> "println", line |-> 50, fmt |-> "Example 3: Returning ownership", args |-> <<>>],
      [op |-> "block_open", line |-> 51],
      [op |-> "call", line |-> 52, fn |-> "gives_ownership", mode |-> "none", arg |-> "", dest |-> "s1"],
      [op |-> "println", line |-> 53, fmt |-> "  Received ownership of string: {}", args |-> <<"s1">>],
      [op |-> "let_string", line |-> 55, var |-> "s2", lit |-> <<104, 101, 108, 108, 111>>],
      [op |-> "println", line |-> 56, fmt |-> "  Created s2: {}", args |-> <<"s2">>],
      [op |-> "call", line |-> 58, fn |-> "takes_and_gives_back", mode |-> "value", arg |-> "s2", dest |-> "s3"],
      [op |-> "println", line |-> 59, fmt |-> "  Transferred s2 to function and received it back as s3: {}", args |-> <<"s3">>],
      [op |-> "println", line |-> 62, fmt |-> "  Note: s2 is no longer valid as ownership was transferred", args |-> <<>>],
      [op |-> "block_close", line |-> 63],
      [op |-> "println", line |-> 64, fmt |-> "  s1 and s3 go out of scope and are dropped, freeing memory\n", args |-> <<>>]
   >>

\* src/main.rs lines 66-127
main_section2 ==
   <<
      [op |-> "println", line |-> 67, fmt |-> "SECTION 2: REFERENCES AND BORROWING", args |-> <<>>],
      [op |-> "println", line |-> 68, fmt |-> "------------------------------------------", args |-> <<>>],
      [op |-> "println", line |-> 70, fmt |-> "Example 1: Immutable references (borrowing)", args |-> <<>>],
      [op |-> "block_open", line |-> 71],
      [op |-> "let_string", line |-> 72, var |-> "s1", lit |-> <<104, 101, 108, 108, 111>>],
      [op |-> "println", line |-> 73, fmt |-> "  Created string s1: {}", args |-> <<"s1">>],
      [op |-> "call", line |-> 76, fn |-> "calculate_length", mode |-> "ref", arg |-> "s1", dest |-> "len"],
      [op |-> "println", line |-> 78, fmt |-> "  Length of '{}' is {} characters", args |-> <<"s1", "len">>],
      [op |-> "println", line |-> 79, fmt |-> "  Note: We can still use s1 here because we only passed a reference to the function", args |-> <<>>],
      [op |-> "block_close", line |-> 80],
      [op |-> "println", line |-> 81, fmt |-> "", args |-> <<>>],
      [op |-> "println", line |-> 83, fmt |-> "Example 2: Mutable references", args |-> <<>>],
      [op |-> "block_open", line |-> 84],
      [op |-> "let_string", line |-> 85, var |-> "s", lit |-> <<104, 101, 108, 108, 111>>],
      [op |-> "println", line |-> 86, fmt |-> "  Created mutable string s: {}", args |-> <<"s">>],
      [op |-> "call", line |-> 89, fn |-> "change", mode |-> "ref_mut", arg |-> "s", dest |-> ""],
      [op |-> "println", line |-> 91, fmt |-> "  After change, s is now: {}", args |-> <<"s">>],
      [op |-> "println", line |-> 92, fmt |-> "  Note: We were able to modify s through a mutable reference", args |-> <<>>],
      [op |-> "println", line |-> 94, fmt |-> "\n  Restriction: Only one mutable reference to a particular piece of data in a particular scope", args |-> <<>>],
      [op |-> "block_open", line |-> 96],
      [op |-> "let_string", line |-> 97, var |-> "s", lit |-> <<109, 117, 108, 116, 105, 112, 108, 101>>],
      [op |-> "println", line |-> 98, fmt |-> "  Created mutable string s: {}", args |-> <<"s">>],
      [op |-> "let_ref", line |-> 100, var |-> "r1", of |-> "s", mut |-> TRUE],
      [op |-> "println", line |-> 101, fmt |-> "  Created mutable reference r1 to s", args |-> <<>>],
      [op |-> "println", line |-> 106, fmt |-> "  Can't create another mutable reference while r1 exists", args |-> <<>>],
      [op |-> "println", line |-> 107, fmt |-> "  Using r1: {}", args |-> <<"r1">>],
      [op |-> "block_close", line |-> 108],
      [op |-> "println", line |-> 110, fmt |-> "\n  Restriction: Cannot have mutable and immutable references in the same scope", args |-> <<>>],
      [op |-> "block_open", line |-> 112],
      [op |-> "let_string", line |-> 113, var |-> "s", lit |-> <<104, 101, 108, 108, 111>>],
      [op |-> "println", line |-> 114, fmt |-> "  Created mutable string s: {}", args |-> <<"s">>],
      [op |-> "let_ref", line |-> 116, var |-> "r1", of |-> "s", mut |-> FALSE],
      [op |-> "let_ref", line |-> 117, var |-> "r2", of |-> "s", mut |-> FALSE],
      [op |-> "println", line |-> 119, fmt |-> "  Two immutable references: {} and {}", args |-> <<"r1", "r2">>],
      [op |-> "println", line |-> 124, fmt |-> "  Can't create a mutable reference while immutable references exist", args |-> <<>>],
      [op |-> "block_close", line |-> 125],
      [op |-> "block_close", line |-> 126],
      [op |-> "println", line |-> 127, fmt |-> "", args |-> <<>>]
   >>

\* src/main.rs lines 129-145
main_section3 ==
   <<
      [op |-> "println", line |-> 130, fmt |-> "SECTION 3: SLICES", args |-> <<>>],
      [op |-> "println", line |-> 131, fmt |-> "------------------------------------------", args |-> <<>>],
      [op |-> "println", line |-> 133, fmt |-> "Example: String slices", args |-> <<>>],
      [op |-> "block_open", line |-> 134],
      [op |-> "let_string", line |-> 135, var |-> "s", lit |-> <<104, 101, 108, 108, 111, 32, 119, 111, 114, 108, 100>>],
      [op |-> "println", line |-> 136, fmt |-> "  Created string s: {}", args |-> <<"s">>],
      [op |-> "let_slice", line |-> 138, var |-> "hello", of |-> "s", lo |-> 0, hi |-> 5],
      [op |-> "let_slice", line |-> 139, var |-> "world", of |-> "s", lo |-> 6, hi |-> 11],
      [op |-> "println", line |-> 141, fmt |-> "  Created slices: '{}' and '{}'", args |-> <<"hello", "world">>],
      [op |-> "println", line |-> 142, fmt |-> "  Note: Slices are references to a portion of the String", args |-> <<>>],
      [op |-> "println", line |-> 143, fmt |-> "  This means they don't take ownership of the data", args |-> <<>>],
      [op |-> "block_close", line |-> 144],
      [op |-> "println", line |-> 145, fmt |-> "", args |-> <<>>]
   >>

\* src/main.rs lines 147-180
main_section4 ==
   <<
      [op |-> "println", line |-> 148, fmt |-> "SECTION 4: PRACTICAL EXAMPLE", args |-> <<>>],
      [op |-> "println", line |-> 149, fmt |-> "------------------------------------------", args |-> <<>>],
      [op |-> "block_open", line |-> 151],
      [op |-> "let_string", line |-> 152, var |-> "text", lit |-> <<84, 104, 101, 32, 113, 117, 105, 99, 107, 32, 98, 114, 111, 119, 110, 32, 102, 111, 120, 32, 106, 117, 109, 112, 115, 32, 111, 118, 101, 114, 32, 116, 104, 101, 32, 108, 97, 122, 121, 32, 100, 111, 103>>],
      [op |-> "println", line |-> 153, fmt |-> "  Original text: {}", args |-> <<"text">>],
      [op |-> "call", line |-> 155, fn |-> "get_first_word", mode |-> "ref", arg |-> "text", dest |-> "first_word"],
      [op |-> "println", line |-> 156, fmt |-> "  First word: {}", args |-> <<"first_word">>],
      [op |-> "println", line |-> 159, fmt |-> "\n  Demonstrating how borrowing prevents data races:", args |-> <<>>],
      [op |-> "let_string", line |-> 161, var |-> "mutable_text", lit |-> <<72, 101, 108, 108, 111, 32, 119, 111, 114, 108, 100>>],
      [op |-> "println", line |-> 162, fmt |-> "  Created mutable text: {}", args |-> <<"mutable_text">>],
      [op |-> "call", line |-> 165, fn |-> "get_first_word", mode |-> "ref", arg |-> "mutable_text", dest |-> "word"],
      [op |-> "println", line |-> 166, fmt |-> "  First word reference: {}", args |-> <<"word">>],
      [op |-> "println", line |-> 172, fmt |-> "  Can't modify mutable_text while word reference exists", args |-> <<>>],
      [op |-> "println", line |-> 173, fmt |-> "  This prevents a data race where word would be pointing to invalid memory", args |-> <<>>],
      [op |-> "println", line |-> 175, fmt |-> "  Using word: {}", args |-> <<"word">>],
      [op |-> "clear", line |-> 178, var |-> "mutable_text"],
      [op |-> "println", line |-> 179, fmt |-> "  After word is no longer used, we can modify text: '{}'", args |-> <<"mutable_text">>],
      [op |-> "block_close", line |-> 180]
   >>

\* src/main.rs lines 182-196
main_summary ==
   <<
      [op |-> "println", line |-> 183, fmt |-> "\n========================================", args |-> <<>>],
      [op |-> "println", line |-> 184, fmt |-> "SUMMARY", args |-> <<>>],
      [op |-> "println", line |-> 185, fmt |-> "========================================", args |-> <<>>],
      [op |-> "println", line |-> 186, fmt |-> "1. Each value in Rust has a single owner.", args |-> <<>>],
      [op |-> "println", line |-> 187, fmt |-> "2. When the owner goes out of scope, the value is dropped.", args |-> <<>>],
      [op |-> "println", line |-> 188, fmt |-> "3. You can transfer ownership by assigning or passing a value.", args |-> <<>>],
      [op |-> "println", line |-> 189, fmt |-> "4. References allow you to access a value without taking ownership.", args |-> <<>>],
      [op |-> "println", line |-> 190, fmt |-> "5. Immutable references (&T) allow reading but not modification.", args |-> <<>>],
      [op |-> "println", line |-> 191, fmt |-> "6. Mutable references (&mut T) allow modification but come with restrictions:", args |-> <<>>],
      [op |-> "println", line |-> 192, fmt |-> "   - Only one mutable reference at a time", args |-> <<>>],
      [op |-> "println", line |-> 193, fmt |-> "   - Cannot have mutable and immutable references simultaneously", args |-> <<>>],
      [op |-> "println", line |-> 194, fmt |-> "7. Slices are references to portions of collections.", args |-> <<>>],
      [op |-> "println", line |-> 195, fmt |-> "8. Rust's ownership system prevents memory safety issues at compile time.", args |-> <<>>],
      [op |-> "return", line |-> 196, expr |-> "unit", var |-> ""]
   >>

\* src/main.rs lines 1-196
main ==
    main_header \o main_section1 \o main_section2 \o main_section3
    \o main_section4 \o main_summary

takes_ownership ==
   <<
      [op |-> "println", line |-> 200, fmt |-> "  Function received ownership of: {}", args |-> <<"some_string">>],
      [op |-> "return", line |-> 201, expr |-> "unit", var |-> ""]
   >>

makes_copy ==
   <<
      [op |-> "println", line |-> 205, fmt |-> "  Function received a copy of: {}", args |-> <<"some_integer">>],
      [op |-> "return", line |-> 206, expr |-> "unit", var |-> ""]
   >>

gives_ownership ==
   <<
      [op |-> "let_string", line |-> 210, var |-> "some_string", lit |-> <<121, 111, 117, 114, 115>>],
      [op |-> "println", line |-> 211, fmt |-> "  Function created a string: {}", args |-> <<"some_string">>],
      [op |-> "return", line |-> 212, expr |-> "var", var |-> "some_string"]
   >>

takes_and_gives_back ==
   <<
      [op |-> "println", line |-> 217, fmt |-> "  Function received ownership of: {}", args |-> <<"a_string">>],
      [op |-> "return", line |-> 218, expr |-> "var", var |-> "a_string"]
   >>

calculate_length ==
   <<
      [op |-> "return", line |-> 224, expr |-> "len", var |-> "s"]
   >>

change_appends_world ==
   <<
      [op |-> "push_str", line |-> 229, var |-> "some_string", lit |-> <<32, 119, 111, 114, 108, 100>>],
      [op |-> "return", line |-> 230, expr |-> "unit", var |-> ""]
   >>

\* push_str(", world")
change ==
   <<
      [op |-> "push_str", line |-> 229, var |-> "some_string", lit |-> <<44, 32, 119, 111, 114, 108, 100>>],
      [op |-> "return", line |-> 230, expr |-> "unit", var |-> ""]
   >>

\* The byte loop and both return statements, lines 234-242.
get_first_word ==
   <<
      [op |-> "return", line |-> 238, expr |-> "first_word", var |-> "s"]
   >>

Code(fn) ==
    CASE fn = "main" -> main
      [] fn = "takes_ownership" -> takes_ownership
      [] fn = "makes_copy" -> makes_copy
      [] fn = "gives_ownership" -> gives_ownership
      [] fn = "takes_and_gives_back" -> takes_and_gives_back
      [] fn = "calculate_length" -> calculate_length
      [] fn = "change" -> change
      [] fn = "get_first_word" -> get_first_word

\* The name of each function's parameter ("" when it has none).
Param(fn) ==
    CASE fn = "main" -> ""
      [] fn = "takes_ownership" -> "some_string"
      [] fn = "makes_copy" -> "some_integer"
      [] fn = "gives_ownership" -> ""
      [] fn = "takes_and_gives_back" -> "a_string"
      [] fn = "calculate_length" -> "s"
      [] fn = "change" -> "some_string"
      [] fn = "get_first_word" -> "s"

-----------------------------------------------------------------------------
(* Values held by bindings.                                                *)

Unit == [k |-> "unit", id |-> 0, mut |-> FALSE, lo |-> 0, hi |-> 0, n |-> 0]

\* A binding from which the String has been moved away.
Moved == [k |-> "moved", id |-> 0, mut |-> FALSE, lo |-> 0, hi |-> 0, n |-> 0]

\* An i32 / usize.
IntV(n) == [k |-> "int", id |-> 0, mut |-> FALSE, lo |-> 0, hi |-> 0, n |-> n]

\* The owner of String buffer id.
Own(id) == [k |-> "own", id |-> id, mut |-> FALSE, lo |-> 0, hi |-> 0, n |-> 0]

\* A slice &buffer[lo..hi]; hi = -1 stands for a reference to the whole
\* String (&String, &mut String), whatever its length is when it is used.
Ref(id, mut, lo, hi) ==
    [k |-> "ref", id |-> id, mut |-> mut, lo |-> lo, hi |-> hi, n |-> 0]

MakeRefAlwaysMut(id, mut) == Ref(id, TRUE, 0, -1)

\* &x and &mut x
MakeRef(id, mut) == Ref(id, mut, 0, -1)

IsCopyNever(v) == FALSE

\* i32 and shared references are Copy; String and &mut are not.
IsCopy(v) == v.k = "int" \/ (v.k = "ref" /\ ~v.mut) \/ v.k = "unit"

MoveOutKeepsSource(v) == v

\* What a binding holds after its value was used by value.
MoveOut(v) == IF IsCopy(v) THEN v ELSE Moved

-----------------------------------------------------------------------------
(* Scopes: a frame holds a sequence of block scopes, innermost last; a     *)
(* scope is the sequence of its bindings in declaration order.             *)

Hits(scopes, name) ==
    UNION { { <<i, j>> : j \in { k \in DOMAIN scopes[i] :
                                    scopes[i][k].name = name } } :
            i \in DOMAIN scopes }

Before(q, p) == q[1] < p[1] \/ (q[1] = p[1] /\ q[2] <= p[2])

\* The innermost binding of name: the one the name resolves to.
Find(scopes, name) ==
    CHOOSE p \in Hits(scopes, name) : \A q \in Hits(scopes, name) : Before(q, p)

Bound(scopes, name) == Hits(scopes, name) # {}

Get(scopes, name) ==
    IF Bound(scopes, name)
    THEN scopes[Find(scopes, name)[1]][Find(scopes, name)[2]].val
    ELSE Moved

Set(scopes, name, v) ==
    LET p == Find(scopes, name)
    IN  [scopes EXCEPT ![p[1]][p[2]].val = v]

\* let name = v
Bind(scopes, name, v) ==
    [scopes EXCEPT ![Len(scopes)] = Append(@, [name |-> name, val |-> v])]

-----------------------------------------------------------------------------
(* The heap of String buffers.                                             *)

FreeAddrs(h) == Addrs \ { h[i].addr : i \in DOMAIN h }

Alloc(h, text, a, line) ==
    Append(h, [val |-> text, addr |-> a, live |-> TRUE, drops |-> 0,
               born |-> line])

DropLeaks(h, id) == h

\* drop(String): the buffer is freed.
Drop(h, id) ==
    [h EXCEPT ![id] = [@ EXCEPT !.live = FALSE, !.drops = @ + 1, !.addr = 0]]

\* A scope ends: its bindings are dropped in reverse declaration order.
RECURSIVE DropScope(_, _)
DropScope(h, scope) ==
    IF scope = <<>> THEN h
    ELSE LET b == scope[Len(scope)]
             rest == SubSeq(scope, 1, Len(scope) - 1)
         IN  DropScope(IF b.val.k = "own" THEN Drop(h, b.val.id) ELSE h, rest)

RECURSIVE DropScopes(_, _)
DropScopes(h, scopes) ==
    IF scopes = <<>> THEN h
    ELSE DropScopes(DropScope(h, scopes[Len(scopes)]),
                    SubSeq(scopes, 1, Len(scopes) - 1))

Min(a, b) == IF a < b THEN a ELSE b

\* The text a value gives access to.
View(h, v) ==
    IF v.k = "own" \/ (v.k = "ref" /\ v.hi = -1) THEN h[v.id].val
    ELSE IF v.k = "ref"
         THEN SubSeq(h[v.id].val, v.lo + 1, Min(v.hi, Len(h[v.id].val)))
    ELSE <<>>

\* Whether the value still gives access to memory that holds its text.
Valid(h, v) ==
    CASE v.k = "own" -> h[v.id].live
      [] v.k = "ref" -> h[v.id].live /\ v.hi <= Len(h[v.id].val)
      [] v.k = "moved" -> FALSE
      [] OTHER -> TRUE

\* What {} prints for a value: the number, or the text.
Display(h, v) == IF v.k = "int" THEN v.n ELSE View(h, v)

-----------------------------------------------------------------------------
(* Live ranges of references: a reference is live from its creation to    *)
(* its last use, which is read off the statements still to be executed.   *)

Uses(st) ==
    CASE st.op = "println" -> { st.args[i] : i \in DOMAIN st.args }
      [] st.op = "let_move" -> { st.from }
      [] st.op \in {"let_ref", "let_slice"} -> { st.of }
      [] st.op = "call" -> IF st.mode = "none" THEN {} ELSE { st.arg }
      [] st.op \in {"clear", "push_str"} -> { st.var }
      [] st.op = "return" -> IF st.expr = "unit" THEN {} ELSE { st.var }
      [] OTHER -> {}

Lets(st) ==
    CASE st.op \in {"let_string", "let_move", "let_int", "let_ref", "let_slice"}
            -> { st.var }
      [] st.op = "call" -> IF st.dest = "" THEN {} ELSE { st.dest }
      [] OTHER -> {}

\* Is name, bound `depth` blocks out from statement j, read by a statement
\* from j on before its scope ends?  sh is the depth of a binding that
\* shadows it, or -1.
RECURSIVE UsedLater(_, _, _, _, _)
UsedLater(code, j, name, depth, sh) ==
    IF j > Len(code) \/ depth < 0 THEN FALSE
    ELSE LET st == code[j]
         IN  IF sh = -1 /\ name \in Uses(st) THEN TRUE
             ELSE IF st.op = "block_open"
                  THEN UsedLater(code, j + 1, name, depth + 1, sh)
             ELSE IF st.op = "block_close"
                  THEN UsedLater(code, j + 1, name, depth - 1,
                                 IF depth - 1 < sh THEN -1 ELSE sh)
             ELSE IF sh = -1 /\ name \in Lets(st)
                  THEN UsedLater(code, j + 1, name, depth, depth)
             ELSE UsedLater(code, j + 1, name, depth, sh)

\* The places <<frame, scope, binding>> of run r's bindings.
Places(r) ==
    UNION { UNION { { <<f, i, j>> : j \in DOMAIN stack[r][f].scopes[i] } :
                    i \in DOMAIN stack[r][f].scopes } :
            f \in DOMAIN stack[r] }

At(r, p) == stack[r][p[1]].scopes[p[2]][p[3]]

\* The binding at place p is the one its name resolves to, or is
\* shadowed by a binding `sh` blocks further in.
Shadow(r, p) ==
    LET sc == stack[r][p[1]].scopes
        q == Find(sc, At(r, p).name)
    IN  IF q = <<p[2], p[3]>> THEN -1 ELSE q[1] - p[2]

\* The innermost frame is about to execute its statement; an outer frame
\* is in the middle of its call statement.
Live(r, p) ==
    LET f == stack[r][p[1]]
        from == IF p[1] = Len(stack[r]) THEN f.pc ELSE f.pc + 1
    IN  UsedLater(Code(f.fn), from, At(r, p).name,
                  Len(f.scopes) - p[2], Shadow(r, p))

LiveRefs(r, id) ==
    { p \in Places(r) : At(r, p).val.k = "ref" /\ At(r, p).val.id = id
                        /\ Live(r, p) }

LiveMutRefs(r, id) == { p \in LiveRefs(r, id) : At(r, p).val.mut }

LiveSharedRefs(r, id) == { p \in LiveRefs(r, id) : ~At(r, p).val.mut }

\* The bindings that own buffer id.
Owners(r, id) ==
    { p \in Places(r) : At(r, p).val.k = "own" /\ At(r, p).val.id = id }

-----------------------------------------------------------------------------
(* The machine.                                                            *)

Cur(r) == stack[r][Len(stack[r])]

Stmt(r) == Code(Cur(r).fn)[Cur(r).pc]

\* Run r has returned from its outermost function.
Done(r) == stack[r] = <<>> /\ panic[r] = "none"

\* Run r was killed by a signal: the process ended where it was, without
\* unwinding.
Killed(r) == signal[r] # "none"

\* Run r executes no further statement.
Stopped(r) == stack[r] = <<>> \/ Killed(r)

\* The runs are stepped side by side: run 1 leads by at most one statement,
\* and a run goes on alone once the other has stopped.  The runs share no
\* state, so this loses no behaviour of either run.
Turn(r) ==
    \/ \E q \in Runs \ {r} : Stopped(q)
    \/ IF r = 1 THEN clock[1] <= clock[2] ELSE clock[2] < clock[1]

Running(r, op) ==
    /\ ~Stopped(r)
    /\ Turn(r)
    /\ Stmt(r).op = op

\* The line of main (or of the entry function) that is being executed.
CallSite(r) == Code(stack[r][1].fn)[stack[r][1].pc].line

\* The innermost frame moves to its next statement with scopes sc.
Step(r, sc) ==
    [stack EXCEPT ![r] =
        [@ EXCEPT ![Len(@)] = [@ EXCEPT !.pc = @ + 1, !.scopes = sc]]]

Tick(r) == clock' = [clock EXCEPT ![r] = @ + 1]

\* All scopes of all frames of a stack, innermost last.
RECURSIVE AllScopes(_)
AllScopes(st) ==
    IF st = <<>> THEN <<>> ELSE st[1].scopes \o AllScopes(Tail(st))

\* A panic unwinds the stack: every frame is left, innermost first, what
\* the frames own is dropped, and the process ends with the panic as its
\* outcome.
Unwind(r, why) ==
    /\ panic' = [panic EXCEPT ![r] = why]
    /\ heap' = [heap EXCEPT ![r] = DropScopes(@, AllScopes(stack[r]))]
    /\ stack' = [stack EXCEPT ![r] = <<>>]

\* A signal kills the process: nothing is unwound and no destructor runs,
\* so no String is dropped.  The address space goes with the process: the
\* buffers are nowhere any more.
Kill(r, sig) ==
    /\ signal' = [signal EXCEPT ![r] = sig]
    /\ heap' = [heap EXCEPT ![r] = [i \in DOMAIN @ |-> [@[i] EXCEPT !.addr = 0]]]

\* The memory-safety violations a direct read of binding name would be.
ReadFaults(r, name) ==
    LET v == Get(Cur(r).scopes, name)
    IN  (IF v.k = "moved" THEN {"use_after_move"} ELSE {})
        \cup (IF v.k \in {"own", "ref"} /\ ~Valid(heap[r], v)
              THEN {"use_after_free"} ELSE {})
        \cup (IF v.k = "own" /\ LiveMutRefs(r, v.id) # {}
              THEN {"read_while_mutably_borrowed"} ELSE {})

\* The violations a direct write to binding name would be.
WriteFaults(r, name) ==
    LET v == Get(Cur(r).scopes, name)
    IN  ReadFaults(r, name)
        \cup (IF v.k = "own" /\ LiveRefs(r, v.id) # {}
              THEN {"write_while_borrowed"} ELSE {})
        \cup (IF v.k = "ref" /\ ~v.mut
              THEN {"write_through_shared_reference"} ELSE {})

Note(r, faults) == fault' = [fault EXCEPT ![r] = @ \cup faults]

\* The number of decimal digits of n >= 0.
RECURSIVE DecimalLen(_)
DecimalLen(n) == IF n < 10 THEN 1 ELSE 1 + DecimalLen(n \div 10)

\* The number of bytes {} prints for a value.
ShownLen(h, v) == IF v.k = "int" THEN DecimalLen(v.n) ELSE Len(View(h, v))

RECURSIVE ShownLens(_, _, _)
ShownLens(h, sc, names) ==
    IF names = <<>> THEN 0
    ELSE ShownLen(h, Get(sc, Head(names))) + ShownLens(h, sc, Tail(names))

\* The length in bytes of the line a println! formats: the format text
\* with every {} replaced by its argument, and the newline.
LineLen(h, sc, st) ==
    Len(st.fmt) - 2 * Len(st.args) + ShownLens(h, sc, st.args) + 1

\* The line of println! st in run r, n bytes long, as it reached stdout:
\* whole, or else cut short after some of its first bytes (at least one
\* and fewer than n).
Line(r, st, n, whole) ==
    [src |-> st.line, at |-> CallSite(r), fmt |-> st.fmt,
     args |-> [i \in DOMAIN st.args |->
                 Display(heap[r], Get(Cur(r).scopes, st.args[i]))],
     len |-> n, whole |-> whole]

\* What run r has delivered once d of the line of st has reached stdout.
Delivered(r, st, n, d) ==
    IF d = "none" THEN out[r] ELSE Append(out[r], Line(r, st, n, d = "whole"))

\* A line of n bytes that was not delivered whole: nothing of it, or a
\* part, which takes a line of two bytes or more.
Short(n) == {"none"} \cup (IF n > 1 THEN {"part"} ELSE {})

\* What can have reached stdout of a line of n bytes whose write failed
\* with an error, so that println! panics.  A literal line is written
\* straight through, so the failed write has left it short.  A line with
\* arguments is assembled in the stdout buffer, which is flushed once more
\* when the process exits, so all of it may still arrive after the panic.
FailedDeliveries(st, n) ==
    Short(n) \cup (IF st.args = <<>> THEN {} ELSE {"whole"})

\* What can have reached stdout of a line of n bytes when the process was
\* killed in the write: the bytes the file still had room for.  Nothing is
\* flushed afterwards.
KilledDeliveries(st, n) == Short(n)

\* println!(fmt, args...).  With standard output open the line is written;
\* or the write fails with an error (a closed pipe, a full device, a
\* non-blocking pipe that is full, a file size limit with SIGXFSZ ignored)
\* and println! panics, which unwinds the stack; or the write runs into the
\* file size limit with SIGXFSZ at its default and the process is killed
\* on the spot: no panic, no unwinding, nothing is dropped.  With file
\* descriptor 1 closed the write is dropped without an error: nothing is
\* delivered and the run goes on.
Println(r) ==
    /\ Running(r, "println")
    /\ LET st == Stmt(r)
           sc == Cur(r).scopes
           n  == LineLen(heap[r], sc, st)
       IN  /\ Note(r, UNION { ReadFaults(r, st.args[i]) : i \in DOMAIN st.args })
           /\ IF stdout[r] = "closed"
              THEN /\ stack' = Step(r, sc)
                   /\ UNCHANGED <<heap, out, panic, signal>>
              ELSE \/ /\ out' = [out EXCEPT ![r] = Delivered(r, st, n, "whole")]
                      /\ stack' = Step(r, sc)
                      /\ UNCHANGED <<heap, panic, signal>>
                   \/ /\ \E d \in FailedDeliveries(st, n) :
                            out' = [out EXCEPT ![r] = Delivered(r, st, n, d)]
                      /\ Unwind(r, "failed printing to stdout")
                      /\ UNCHANGED signal
                   \/ /\ \E d \in KilledDeliveries(st, n) :
                            out' = [out EXCEPT ![r] = Delivered(r, st, n, d)]
                      /\ Kill(r, "SIGXFSZ")
                      /\ UNCHANGED <<stack, panic>>
    /\ Tick(r)
    /\ UNCHANGED <<result, entry, arg, stdout>>

\* {
BlockOpen(r) ==
    /\ Running(r, "block_open")
    /\ stack' = Step(r, Append(Cur(r).scopes, <<>>))
    /\ Tick(r)
    /\ UNCHANGED <<heap, out, panic, fault, result, entry, arg, stdout, signal>>

\* }  -- the bindings of the block go out of scope
BlockClose(r) ==
    /\ Running(r, "block_close")
    /\ LET sc == Cur(r).scopes
       IN  /\ heap' = [heap EXCEPT ![r] = DropScope(@, sc[Len(sc)])]
           /\ stack' = Step(r, SubSeq(sc, 1, Len(sc) - 1))
    /\ Tick(r)
    /\ UNCHANGED <<out, panic, fault, result, entry, arg, stdout, signal>>

\* let var = String::from(lit);
LetString(r) ==
    /\ Running(r, "let_string")
    /\ \E a \in FreeAddrs(heap[r]) :
          heap' = [heap EXCEPT ![r] = Alloc(@, Stmt(r).lit, a, Stmt(r).line)]
    /\ stack' = Step(r, Bind(Cur(r).scopes, Stmt(r).var, Own(Len(heap[r]) + 1)))
    /\ Tick(r)
    /\ UNCHANGED <<out, panic, fault, result, entry, arg, stdout, signal>>

\* let var = from;
LetMove(r) ==
    /\ Running(r, "let_move")
    /\ LET st == Stmt(r)
           sc == Cur(r).scopes
           v  == Get(sc, st.from)
       IN  /\ stack' = Step(r, Bind(Set(sc, st.from, MoveOut(v)), st.var, v))
           /\ Note(r, IF IsCopy(v) THEN ReadFaults(r, st.from)
                      ELSE WriteFaults(r, st.from))
    /\ Tick(r)
    /\ UNCHANGED <<heap, out, panic, result, entry, arg, stdout, signal>>

\* let var = n;
LetInt(r) ==
    /\ Running(r, "let_int")
    /\ stack' = Step(r, Bind(Cur(r).scopes, Stmt(r).var, IntV(Stmt(r).n)))
    /\ Tick(r)
    /\ UNCHANGED <<heap, out, panic, fault, result, entry, arg, stdout, signal>>

\* let var = &of;   let var = &mut of;
\* Taking a shared reference reads the referent, taking a mutable one
\* writes it.
LetRef(r) ==
    /\ Running(r, "let_ref")
    /\ LET st == Stmt(r)
           sc == Cur(r).scopes
           v  == Get(sc, st.of)
       IN  /\ stack' = Step(r, Bind(sc, st.var, MakeRef(v.id, st.mut)))
           /\ Note(r, IF st.mut THEN WriteFaults(r, st.of)
                      ELSE ReadFaults(r, st.of))
    /\ Tick(r)
    /\ UNCHANGED <<heap, out, panic, result, entry, arg, stdout, signal>>

\* let var = &of[lo..hi];
LetSlice(r) ==
    /\ Running(r, "let_slice")
    /\ LET st == Stmt(r)
           sc == Cur(r).scopes
           v  == Get(sc, st.of)
       IN  /\ Note(r, ReadFaults(r, st.of))
           /\ IF SlicePanics(View(heap[r], v), st.lo, st.hi)
              THEN Unwind(r, "slice index")
              ELSE /\ stack' = Step(r, Bind(sc, st.var,
                                Ref(v.id, FALSE, v.lo + st.lo, v.lo + st.hi)))
                   /\ UNCHANGED <<heap, panic>>
    /\ Tick(r)
    /\ UNCHANGED <<out, result, entry, arg, stdout, signal>>

\* The value a call hands to the callee's parameter.
Passed(st, v) ==
    CASE st.mode = "value" -> v
      [] st.mode = "ref" -> MakeRef(v.id, FALSE)
      [] st.mode = "ref_mut" -> MakeRef(v.id, TRUE)
      [] OTHER -> Unit

\* fn(arg): the callee's frame is entered; the caller stays at the call.
Call(r) ==
    /\ Running(r, "call")
    /\ LET st == Stmt(r)
           sc == Cur(r).scopes
           v  == IF st.mode = "none" THEN Unit ELSE Get(sc, st.arg)
           callee == [fn |-> st.fn, pc |-> 1,
                      scopes |-> << IF st.mode = "none" THEN <<>>
                                    ELSE << [name |-> Param(st.fn),
                                             val |-> Passed(st, v)] >> >>]
           caller == [Cur(r) EXCEPT !.scopes =
                         IF st.mode = "value" THEN Set(sc, st.arg, MoveOut(v))
                         ELSE sc]
       IN  /\ stack' = [stack EXCEPT ![r] =
                          Append([@ EXCEPT ![Len(@)] = caller], callee)]
           /\ Note(r, CASE st.mode = "none" -> {}
                        [] st.mode = "ref" -> ReadFaults(r, st.arg)
                        [] st.mode = "ref_mut" -> WriteFaults(r, st.arg)
                        [] st.mode = "value" ->
                              IF IsCopy(v) THEN ReadFaults(r, st.arg)
                              ELSE WriteFaults(r, st.arg))
    /\ Tick(r)
    /\ UNCHANGED <<heap, out, panic, result, entry, arg, stdout, signal>>

\* var.clear();
Clear(r) ==
    /\ Running(r, "clear")
    /\ LET v == Get(Cur(r).scopes, Stmt(r).var)
       IN  /\ heap' = [heap EXCEPT ![r] =
                         IF v.k \in {"own", "ref"}
                         THEN [@ EXCEPT ![v.id].val = clear(@)] ELSE @]
           /\ Note(r, WriteFaults(r, Stmt(r).var))
    /\ stack' = Step(r, Cur(r).scopes)
    /\ Tick(r)
    /\ UNCHANGED <<out, panic, result, entry, arg, stdout, signal>>

\* var.push_str(lit);  growing the buffer may move it.
PushStr(r) ==
    /\ Running(r, "push_str")
    /\ LET v == Get(Cur(r).scopes, Stmt(r).var)
       IN  /\ \E a \in FreeAddrs(heap[r]) \cup {heap[r][v.id].addr} :
                 heap' = [heap EXCEPT ![r] =
                            [@ EXCEPT ![v.id].val = push_str(@, Stmt(r).lit),
                                      ![v.id].addr = a]]
           /\ Note(r, WriteFaults(r, Stmt(r).var))
    /\ stack' = Step(r, Cur(r).scopes)
    /\ Tick(r)
    /\ UNCHANGED <<out, panic, result, entry, arg, stdout, signal>>

\* The value of the returned expression.
Returned(h, st, sc) ==
    LET v == IF st.expr = "unit" THEN Unit ELSE Get(sc, st.var)
    IN  CASE st.expr = "var" -> v
          [] st.expr = "len" -> IntV(len(View(h, v)))
          [] st.expr = "first_word" ->
                Ref(v.id, FALSE, v.lo, v.lo + get_first_word_end(View(h, v)))
          [] OTHER -> Unit

ReturnPanics(h, st, sc) ==
    /\ st.expr = "first_word"
    /\ SlicePanics(View(h, Get(sc, st.var)), 0,
                   get_first_word_end(View(h, Get(sc, st.var))))

\* The end of a function: the returned value moves to the caller, what the
\* frame still owns is dropped, and the caller goes on after its call.
Return(r) ==
    /\ Running(r, "return")
    /\ LET st == Stmt(r)
           sc == Cur(r).scopes
           rv == Returned(heap[r], st, sc)
           left == IF st.expr = "var" THEN Set(sc, st.var, MoveOut(rv)) ELSE sc
           n  == Len(stack[r])
       IN  IF ReturnPanics(heap[r], st, sc)
           THEN /\ Unwind(r, "slice index")
                /\ UNCHANGED <<fault, result>>
           ELSE /\ heap' = [heap EXCEPT ![r] = DropScopes(@, left)]
                /\ Note(r, IF st.expr = "unit" THEN {}
                           ELSE ReadFaults(r, st.var))
                /\ IF n = 1
                   THEN /\ stack' = [stack EXCEPT ![r] = <<>>]
                        /\ result' = [result EXCEPT ![r] = rv]
                   ELSE LET caller == stack[r][n - 1]
                            dest == Code(caller.fn)[caller.pc].dest
                        IN  /\ stack' = [stack EXCEPT ![r] =
                                  Append(SubSeq(@, 1, n - 2),
                                         [caller EXCEPT
                                            !.pc = @ + 1,
                                            !.scopes = IF dest = "" THEN @
                                                       ELSE Bind(@, dest, rv)])]
                            /\ UNCHANGED result
                /\ UNCHANGED panic
    /\ Tick(r)
    /\ UNCHANGED <<out, entry, arg, stdout, signal>>

-----------------------------------------------------------------------------
(* Specifications.                                                         *)

Frame(fn, sc) == [fn |-> fn, pc |-> 1, scopes |-> sc]

\* Both runs are about to execute the first statement of main, each with
\* its standard output open or closed.
Init ==
    /\ stack = [r \in Runs |-> << Frame("main", << <<>> >>) >>]
    /\ heap = [r \in Runs |-> <<>>]
    /\ out = [r \in Runs |-> <<>>]
    /\ clock = [r \in Runs |-> 0]
    /\ panic = [r \in Runs |-> "none"]
    /\ fault = [r \in Runs |-> {}]
    /\ result = [r \in Runs |-> Unit]
    /\ entry = "main"
    /\ arg = <<>>
    /\ stdout \in [Runs -> {"open", "closed"}]
    /\ signal = [r \in Runs |-> "none"]

Helpers == {"calculate_length", "change", "get_first_word"}

\* Both runs are at the entry of one of the helper functions that take a
\* reference, called on some text that the caller owns.
InitHelper ==
    /\ entry \in Helpers
    /\ arg \in Texts
    /\ stack = [r \in Runs |->
                 << Frame(entry, << << [name |-> Param(entry),
                                        val |-> MakeRef(1, entry = "change")] >> >>) >>]
    /\ heap \in [Runs -> { Alloc(<<>>, arg, a, 0) : a \in Addrs }]
    /\ out = [r \in Runs |-> <<>>]
    /\ clock = [r \in Runs |-> 0]
    /\ panic = [r \in Runs |-> "none"]
    /\ fault = [r \in Runs |-> {}]
    /\ result = [r \in Runs |-> Unit]
    /\ stdout \in [Runs -> {"open", "closed"}]
    /\ signal = [r \in Runs |-> "none"]

InitFn == Init \/ InitHelper

Next ==
    \E r \in Runs :
        \/ Println(r)
        \/ BlockOpen(r)
        \/ BlockClose(r)
        \/ LetString(r)
        \/ LetMove(r)
        \/ LetInt(r)
        \/ LetRef(r)
        \/ LetSlice(r)
        \/ Call(r)
        \/ Clear(r)
        \/ PushStr(r)
        \/ Return(r)

\* Two runs of the program.
Spec == Init /\ [][Next]_vars

\* Two runs of the program, or of a helper function on any text.
SpecFn == InitFn /\ [][Next]_vars

-----------------------------------------------------------------------------
(* Properties.  The texts the properties speak of, as UTF-8 bytes.         *)

\* "hello"
TextHello == <<104, 101, 108, 108, 111>>

\* "hello world"
TextHelloWorld == <<104, 101, 108, 108, 111, 32, 119, 111, 114, 108, 100>>

\* "hello, world"
TextHelloCommaWorld == <<104, 101, 108, 108, 111, 44, 32, 119, 111, 114, 108, 100>>

\* ", world"
TextCommaWorld == <<44, 32, 119, 111, 114, 108, 100>>

\* "world"
TextWorld == <<119, 111, 114, 108, 100>>

\* "The"
TextThe == <<84, 104, 101>>

\* "Hello"
TextCapHello == <<72, 101, 108, 108, 111>>

\* "Hello world"
TextCapHelloWorld == <<72, 101, 108, 108, 111, 32, 119, 111, 114, 108, 100>>

\* "The quick brown fox jumps over the lazy dog"
TextFox ==
    <<84, 104, 101, 32, 113, 117, 105, 99, 107, 32, 98, 114, 111, 119,
    110, 32, 102, 111, 120, 32, 106, 117, 109, 112, 115, 32, 111, 118,
    101, 114, 32, 116, 104, 101, 32, 108, 97, 122, 121, 32, 100, 111,
    103>>

\* Run r is in main, about to execute the statement at source line l.
MainAt(r, l) ==
    /\ entry = "main"
    /\ Len(stack[r]) = 1
    /\ Stmt(r).line = l

\* The arguments of the lines of which run r printed at least a part from
\* source line l.
Printed(r, l) == { out[r][i].args : i \in { j \in DOMAIN out[r] : out[r][j].src = l } }

\* The buffers run r allocated at source line l.
Born(r, l) == { i \in DOMAIN heap[r] : heap[r][i].born = l }

\* Both runs were entered at helper function fn.
InHelper(fn) == entry = fn

\* The banner and the titles of the sections, in the order of the source.
Titles ==
    << "RUST OWNERSHIP AND BORROWING DEMO",
       "SECTION 1: BASIC OWNERSHIP",
       "SECTION 2: REFERENCES AND BORROWING",
       "SECTION 3: SLICES",
       "SECTION 4: PRACTICAL EXAMPLE",
       "SUMMARY" >>

\* The source lines of the statements that print them.
TitleLines == { main[k].line : k \in { j \in DOMAIN main :
                    main[j].op = "println"
                    /\ \E t \in DOMAIN Titles : main[j].fmt = Titles[t] } }

IsTitle(line) == line.src \in TitleLines

\* Lines come out in the order of the statements of main; a helper's line
\* comes out while main is at the call.
TextualOrder(r) ==
    \A i \in 1..(Len(out[r]) - 1) : out[r][i].at < out[r][i + 1].at

\* A helper's line is printed at a call of that helper.
AtCall(r) ==
    \A i \in DOMAIN out[r] :
        out[r][i].src # out[r][i].at =>
            \E k \in DOMAIN main :
                /\ main[k].op = "call"
                /\ main[k].line = out[r][i].at
                /\ \E m \in DOMAIN Code(main[k].fn) :
                      Code(main[k].fn)[m].line = out[r][i].src

\* The banner and the section titles appear once each, in order.
TitlesInOrder(r) ==
    LET seen == SelectSeq(out[r], IsTitle)
    IN  /\ Len(seen) <= Len(Titles)
        /\ \A k \in DOMAIN seen : seen[k].fmt = Titles[k]

\* Every println! of main has delivered its line, exactly once.
AllLines(r) ==
    \A k \in DOMAIN main :
        main[k].op = "println" =>
            \E i \in DOMAIN out[r] :
                /\ out[r][i].src = main[k].line
                /\ out[r][i].fmt = main[k].fmt
                /\ out[r][i].whole
                /\ \A j \in DOMAIN out[r] : out[r][j].src = main[k].line => j = i

\* C1: every run of main produces the same fixed, ordered sequence of
\* output lines: two runs stepped side by side have identical lines at
\* every position, two runs that have ended have delivered the same
\* output, which is every line of main, whole and once, and the lines
\* follow the textual order of the statements (banner, Section 1 to 4,
\* Summary, a helper's line at its call).
C1_EveryRunSameOutput ==
    entry = "main" =>
        /\ \A i \in 1..Min(Len(out[1]), Len(out[2])) : out[1][i] = out[2][i]
        /\ Stopped(1) /\ Stopped(2) => out[1] = out[2]
        /\ \A r \in Runs : TextualOrder(r) /\ AtCall(r) /\ TitlesInOrder(r)
        /\ \A r \in Runs : Stopped(r) => AllLines(r)

\* Every slice index lies in bounds and on a character boundary: a run
\* about to return from get_first_word slices at a space byte or at the
\* end of the text.
SliceIndexSafe(r) ==
    ~Stopped(r) /\ Stmt(r).op = "return" /\ Stmt(r).expr = "first_word" =>
        LET s == View(heap[r], Get(Cur(r).scopes, Stmt(r).var))
            i == get_first_word_end(s)
        IN  /\ 0 <= i /\ i <= Len(s)
            /\ is_char_boundary(s, i)
            /\ i < Len(s) => s[i + 1] = SPACE

\* C2: no run reaches a panic: every slice index is in bounds and on a
\* character boundary, and a run of main ends only by returning from its
\* last statement.
C2_NeverPanics ==
    \A r \in Runs :
        /\ panic[r] = "none"
        /\ SliceIndexSafe(r)
        /\ entry = "main" /\ Stopped(r) => Done(r)

\* The text of the slice that get_first_word returned in run r.
FirstWord(r) == View(heap[r], result[r])

\* C3: for every text, get_first_word returns the prefix that ends just
\* before the first space byte, the whole text when there is no space;
\* the result holds no space.  In main the first words are "The" and
\* "Hello".
C3_FirstWord ==
    \A r \in Runs :
        /\ InHelper("get_first_word") /\ Done(r) =>
              /\ result[r].k = "ref" /\ result[r].lo = 0
              /\ Len(FirstWord(r)) <= Len(arg)
              /\ FirstWord(r) = SubSeq(arg, 1, Len(FirstWord(r)))
              /\ \A i \in DOMAIN FirstWord(r) : FirstWord(r)[i] # SPACE
              /\ Len(FirstWord(r)) < Len(arg) =>
                    arg[Len(FirstWord(r)) + 1] = SPACE
        /\ Printed(r, 156) \subseteq { << TextThe >> }
        /\ Printed(r, 166) \subseteq { << TextCapHello >> }

\* get_first_word has returned "a" for the text "a a".
C3_Witness ==
    /\ InHelper("get_first_word")
    /\ arg = <<97, 32, 97>>
    /\ Done(2)
    /\ FirstWord(2) = <<97>>

\* C4: every live String has exactly one owning binding.  A move makes the
\* destination the owner and leaves the source without the value, and no
\* moved-from binding is read afterwards.
C4_SingleOwner ==
    \A r \in Runs :
        /\ \A id \in DOMAIN heap[r] :
              heap[r][id].live => Cardinality(Owners(r, id)) = 1
        /\ "use_after_move" \notin fault[r]
        /\ MainAt(r, 19) =>
              /\ Get(Cur(r).scopes, "s1") = Moved
              /\ Get(Cur(r).scopes, "s2").k = "own"
        /\ MainAt(r, 37) => Get(Cur(r).scopes, "s") = Moved
        /\ MainAt(r, 59) =>
              /\ Get(Cur(r).scopes, "s1").k = "own"
              /\ Get(Cur(r).scopes, "s2") = Moved
              /\ Get(Cur(r).scopes, "s3").k = "own"
        /\ \A f \in DOMAIN stack[r] :
              f > 1 /\ stack[r][f].fn \in {"takes_ownership", "takes_and_gives_back"}
                    /\ stack[r][f].pc = 1 =>
                  /\ stack[r][f].scopes[1][1].val.k = "own"
                  /\ Get(stack[r][f - 1].scopes,
                         Code(stack[r][f - 1].fn)[stack[r][f - 1].pc].arg) = Moved

\* takes_and_gives_back is running on the String that was s2, while s1
\* still owns its own String.
C4_Witness ==
    /\ Len(stack[1]) = 2
    /\ Cur(1).fn = "takes_and_gives_back"
    /\ Get(Cur(1).scopes, "a_string").k = "own"
    /\ Get(stack[1][1].scopes, "s2") = Moved
    /\ Get(stack[1][1].scopes, "s1").k = "own"

\* The String literals main and gives_ownership turn into Strings.
NumStrings ==
    Cardinality({ k \in DOMAIN main : main[k].op = "let_string" }) + 1

\* Every String of run r is live and not dropped, or dropped once and then
\* neither owned nor borrowed; the String moved into takes_ownership goes
\* when that function returns, the Strings returned by gives_ownership and
\* takes_and_gives_back at the end of the caller's block.
DroppedAtScopeEnd(r) ==
    /\ \A id \in DOMAIN heap[r] :
          /\ heap[r][id].drops = (IF heap[r][id].live THEN 0 ELSE 1)
          /\ ~heap[r][id].live => Owners(r, id) = {} /\ LiveRefs(r, id) = {}
    /\ "use_after_free" \notin fault[r]
    /\ entry = "main" /\ Done(r) => Len(heap[r]) = NumStrings
    /\ \A f \in DOMAIN stack[r] :
          stack[r][f].fn = "takes_ownership" =>
              \A id \in Born(r, 29) : heap[r][id].live
    /\ MainAt(r, 37) => \A id \in Born(r, 29) : ~heap[r][id].live
    /\ MainAt(r, 62) \/ MainAt(r, 63) =>
          /\ Born(r, 210) # {} /\ Born(r, 55) # {}
          /\ \A id \in Born(r, 210) \cup Born(r, 55) : heap[r][id].live
    /\ MainAt(r, 64) =>
          \A id \in Born(r, 210) \cup Born(r, 55) : ~heap[r][id].live

C6_BorrowRules ==
    \A r \in Runs :
        /\ \A id \in DOMAIN heap[r] :
              \/ Cardinality(LiveMutRefs(r, id)) <= 1 /\ LiveSharedRefs(r, id) = {}
              \/ LiveMutRefs(r, id) = {}
        /\ fault[r] \cap {"read_while_mutably_borrowed", "write_while_borrowed",
                          "write_through_shared_reference"} = {}

\* r1 and r2, two shared references to the same String, are both live.
C6_Witness ==
    /\ MainAt(1, 119)
    /\ Cardinality(LiveSharedRefs(1, Get(Cur(1).scopes, "s").id)) = 2

\* The statement of main at source line l, and the statement the frame of
\* main in run r is at.
MainIndex(l) == CHOOSE j \in DOMAIN main : main[j].line = l

MainPc(r) == stack[r][1].pc

InMain(r) == entry = "main" /\ ~Stopped(r)

\* The statements of Section 4's block that read word.
WordReads ==
    { j \in MainIndex(161)..MainIndex(180) : "word" \in Uses(main[j]) }

\* The statement mutable_text.clear().
ClearIndex == MainIndex(178)

\* C7: in Section 4 mutable_text.clear() comes strictly after the last
\* use of the slice word: the reads of word are the statements at lines
\* 166 and 175, each finds word to be "Hello" and the text untouched, the
\* text is empty exactly once main is past line 178, by then every read
\* of word lies behind and no reference to the text is live, and line 179
\* prints the empty text.
C7_ClearAfterLastUse ==
    \A r \in Runs :
        /\ WordReads = { MainIndex(166), MainIndex(175) }
        /\ MainAt(r, 166) \/ MainAt(r, 175) =>
              /\ Stmt(r).op = "println" /\ Stmt(r).args = << "word" >>
              /\ View(heap[r], Get(Cur(r).scopes, "word")) = TextCapHello
              /\ View(heap[r], Get(Cur(r).scopes, "mutable_text"))
                    = TextCapHelloWorld
        /\ \A id \in Born(r, 161) :
              /\ heap[r][id].val \in { TextCapHelloWorld, <<>> }
              /\ InMain(r) =>
                    (heap[r][id].val = <<>> <=> MainPc(r) > ClearIndex)
              /\ heap[r][id].val = <<>> => LiveRefs(r, id) = {}
        /\ MainAt(r, 178) =>
              /\ Stmt(r).op = "clear" /\ Stmt(r).var = "mutable_text"
              /\ \A j \in WordReads : j < MainPc(r)
              /\ LiveRefs(r, Get(Cur(r).scopes, "mutable_text").id) = {}
        /\ InMain(r) /\ MainPc(r) > ClearIndex =>
              \A j \in WordReads : j < MainPc(r)
        /\ MainAt(r, 179) =>
              /\ Stmt(r).args = << "mutable_text" >>
              /\ View(heap[r], Get(Cur(r).scopes, "mutable_text")) = <<>>
              /\ LineLen(heap[r], Cur(r).scopes, Stmt(r)) = Len(Stmt(r).fmt) - 1
        /\ Printed(r, 166) \subseteq { << TextCapHello >> }
        /\ Printed(r, 175) \subseteq { << TextCapHello >> }
        /\ Printed(r, 179) \subseteq { << <<>> >> }
        /\ fault[r] \cap {"use_after_free", "write_while_borrowed"} = {}

\* The section has printed its last line, after the clear.
C7_Witness ==
    /\ MainAt(1, 180)
    /\ \E id \in Born(1, 161) : heap[1][id].val = <<>> /\ heap[1][id].live
    /\ Printed(1, 175) = { << TextCapHello >> }
    /\ Printed(1, 179) = { << <<>> >> }

\* C8: change appends exactly ", world" to the String behind its mutable
\* reference: for every text v the String is v followed by ", world"
\* afterwards, 7 bytes longer; the caller sees it through its own binding:
\* main prints "hello" before the call and "hello, world" after it.
C8_ChangeAppends ==
    \A r \in Runs :
        /\ InHelper("change") /\ Done(r) =>
              /\ heap[r][1].val = arg \o TextCommaWorld
              /\ Len(heap[r][1].val) = Len(arg) + 7
              /\ SubSeq(heap[r][1].val, 1, Len(arg)) = arg
              /\ heap[r][1].live
        /\ InHelper("change") /\ ~Done(r) /\ Cur(r).pc = 1 =>
              heap[r][1].val = arg
        /\ Printed(r, 86) \subseteq { << TextHello >> }
        /\ Printed(r, 91) \subseteq { << TextHelloCommaWorld >> }
        /\ MainAt(r, 91) =>
              View(heap[r], Get(Cur(r).scopes, "s")) = TextHelloCommaWorld

\* change has returned on a text that ends in a two-byte character.
C8_Witness ==
    /\ InHelper("change")
    /\ arg = <<97, 195, 169>>
    /\ Done(1)
    /\ Len(heap[1][1].val) = 10

\* C9: what only borrows immutably or copies leaves the caller's value
\* unchanged and usable: calculate_length(&s1) leaves s1 "hello",
\* makes_copy(x) leaves x 5, get_first_word(&text) leaves text unchanged,
\* and the slices s[0..5] and s[6..11] are "hello" and "world" while s
\* stays "hello world".
C9_BorrowLeavesValue ==
    \A r \in Runs :
        /\ InHelper("calculate_length") \/ InHelper("get_first_word") =>
              heap[r][1].val = arg /\ heap[r][1].live
        /\ \A id \in Born(r, 72) : heap[r][id].val = TextHello
        /\ \A id \in Born(r, 135) : heap[r][id].val = TextHelloWorld
        /\ \A id \in Born(r, 152) : heap[r][id].val = TextFox
        /\ MainAt(r, 78) =>
              /\ Get(Cur(r).scopes, "s1").k = "own"
              /\ View(heap[r], Get(Cur(r).scopes, "s1")) = TextHello
        /\ Printed(r, 78) \subseteq { << TextHello, 5 >> }
        /\ MainAt(r, 45) => Get(Cur(r).scopes, "x") = IntV(5)
        /\ Printed(r, 45) \subseteq { << 5 >> }
        /\ MainAt(r, 156) =>
              /\ Get(Cur(r).scopes, "text").k = "own"
              /\ View(heap[r], Get(Cur(r).scopes, "text")) = TextFox
        /\ MainAt(r, 141) =>
              /\ Get(Cur(r).scopes, "s").k = "own"
              /\ View(heap[r], Get(Cur(r).scopes, "s")) = TextHelloWorld
        /\ Printed(r, 141) \subseteq { << TextHello, TextWorld >> }
        /\ "use_after_move" \notin fault[r]

\* main has passed x to makes_copy and printed x again.
C9_Witness ==
    /\ MainAt(1, 46)
    /\ Printed(1, 205) = { << 5 >> }
    /\ Printed(1, 45) = { << 5 >> }

\* C10: the number calculate_length returns, which main prints as the
\* number of characters of s1, is the number of characters of the text.
C10_LengthIsCharCount ==
    \A r \in Runs :
        /\ InHelper("calculate_length") /\ Done(r) =>
              result[r] = IntV(CharCount(arg))
        /\ Printed(r, 78) \subseteq { << TextHello, CharCount(TextHello) >> }

=============================================================================
